---- MODULE Spec2Model ----
(***************************************************************************)
(* Referral -> earnings -> payout lifecycle of the affiliate backend.      *)
(*                                                                         *)
(* The database rows are the state: referrals, earnings (one per referral, *)
(* OneToOneField), payouts, PayoutReferral join rows and the two timeline  *)
(* tables.  Every request handler, admin action and model method is one    *)
(* action.  Under Spec the handlers run one at a time.  Under SpecRace      *)
(* payout creation is split in two steps (the reads, then the writes and   *)
(* the commit) so that two create requests can overlap.                    *)
(*                                                                         *)
(* The post_save receivers of payouts/signals.py and                       *)
(* referrals_management/signals.py are connected.  PaymentProcessor is the *)
(* class of services/views.py; the view passes it the payout and the       *)
(* transaction id / error message.                                         *)
(***************************************************************************)
EXTENDS Integers, Sequences, FiniteSets, TLC

\* ---------------------------------------------------------------- bounds
\* payouts two overlapping create requests can make
MaxPayouts == 2
\* payouts the requests that run one at a time can make
MaxSeqPayouts == 1
\* status changes of one payout after which the generic update stops
MaxPayoutChanges == 2
\* status changes of one referral
MaxRefChanges == 1
\* timeline entries of one referral where referrals are saved again and again
MaxRefSaves == 3
\* the last week in which a referral is submitted or saved
MaxWeek == 2

\* ------------------------------------------------------------- the world
Partners == {"A", "B"}
RefIds == {1, 2}
Clients == {1, 2}
PayoutIds == 1..MaxPayouts
NoPayout == 0
NoValue == "none"
\* a null actual_commission
NoCommission == -1
\* a null expected_implementation_date
NoDate == -1

\* referral 1 was submitted by partner A's user, referral 2 by partner B's
RefPartner(r) == IF r = 1 THEN "A" ELSE "B"
\* Referral.potential_commission of the two referrals
Potential(r) == IF r = 1 THEN 50 ELSE 75

ReferralStatus == {"pending", "contacted", "qualified", "converted", "rejected"}
\* the statuses the status-update requests of the model carry
StatusInputs == {"converted", "rejected"}
EarningsStatus == {"pending", "available", "processing", "paid", "cancelled"}
PayoutStatus == {"pending", "processing", "completed", "failed", "cancelled"}
\* the statuses the generic payout update requests of the model carry
UpdateInputs == {"pending", "processing", "completed"}
\* the amount a payout-create request carries
AmountInputs == {100}
TxInputs == {"TX123"}
ErrInputs == {"Payment processing failed"}
Callers == {"staff", "userA"}
IsStaff(u) == u = "staff"
\* the partner profile of a non-staff caller
PartnerOf(u) == "A"
ReasonInputs == {"duplicate request"}
\* the estimates the admin form can carry
PotentialInputs == {0, 50}
\* the notes a generic earnings update carries
NotesInputs == {"checked by finance"}
\* the payment methods with a processor
MethodInputs == {"bank", "mpesa"}
\* the payment methods of a payout setting
SettingMethods == {"bank", "paypal", "mpesa", "stripe", "crypto"}
\* the keys of payment_details a request for a method carries some of
DetailInputs(method) ==
  IF method = "bank" THEN {"account_name", "account_number", "routing_number", "bank_name"}
  ELSE IF method = "paypal" THEN {"email"}
  ELSE IF method = "mpesa" THEN {"phone_number"}
  ELSE IF method = "stripe" THEN {"account_id"}
  ELSE {"wallet_address", "currency"}
\* the referral codes a submission carries
CodeInputs == {"X1"}
\* the timelines a request carries
TimelineInputs == {"Immediate", "6+ months"}
\* the statuses a later save of a referral carries
SaveInputs == {"contacted", "converted", "rejected"}

VARIABLES referrals, referralTimeline, earnings, payouts, payoutReferrals,
          payoutTimeline, payoutSettings, req, last

vars == <<referrals, referralTimeline, earnings, payouts, payoutReferrals,
          payoutTimeline, payoutSettings, req, last>>

NoEarning ==
  [exists |-> FALSE, partner |-> NoValue, amount |-> 0, status |-> "pending",
   payout |-> NoPayout, notes |-> {}]

NoPayoutRow ==
  [exists |-> FALSE, partner |-> NoValue, requested_by |-> NoValue, amount |-> 0,
   status |-> "pending", note |-> {}, processed_date |-> FALSE, transaction_id |-> NoValue,
   pd_transaction_id |-> NoValue, pd_error |-> NoValue,
   payment_method |-> NoValue, pd_phone_number |-> FALSE]

\* no PayoutSetting row; payment_details is the set of its keys that have
\* a value
NoSetting == [exists |-> FALSE, payment_method |-> NoValue, payment_details |-> {}]

IdleReq ==
  [pc |-> "idle", partner |-> NoValue, requested_by |-> NoValue, amount |-> 0,
   ids |-> {}, pid |-> NoPayout, selected |-> {}, flipped |-> {}, overlap |-> {},
   payment_method |-> NoValue, pd_phone_number |-> FALSE, inst |-> NoPayoutRow]

Idle == \A c \in Clients : req[c].pc = "idle"

\* What the last request answered.  The 400 answers of the payout actions are
\* kept apart by action and payout; every other answer keeps only whether it
\* was a success, an error response or an exception that left the handler.
Response(op, id, result) ==
  IF result = "400" /\ op \in {"process", "complete", "fail", "cancel"}
  THEN [op |-> op, id |-> id, result |-> result]
  ELSE [op |-> "request", id |-> 0,
        result |-> IF result = "ok" THEN "ok"
                   ELSE IF result = "500" THEN "raised" ELSE "error"]

RECURSIVE SumAmounts(_, _)
SumAmounts(E, S) ==
  IF S = {} THEN 0
  ELSE LET e == CHOOSE x \in S : TRUE IN E[e].amount + SumAmounts(E, S \ {e})

RECURSIVE SumRows(_)
SumRows(S) ==
  IF S = {} THEN 0
  ELSE LET x == CHOOSE y \in S : TRUE IN x.amount + SumRows(S \ {x})

\* ------------------------------------------------------ Earnings methods
\* Each returns the earnings table after the call; the boolean the method
\* returns is the guard below it.

mark_as_available_ok(E, e) == E[e].exists /\ E[e].status = "pending"
mark_as_available(E, e) ==
  IF mark_as_available_ok(E, e) THEN [E EXCEPT ![e].status = "available"] ELSE E

mark_as_processing_ok(E, e) == E[e].exists /\ E[e].status = "available"
mark_as_processing(E, e, p) ==
  IF mark_as_processing_ok(E, e)
  THEN [E EXCEPT ![e].status = "processing",
                 ![e].payout = IF p # NoPayout THEN p ELSE @]
  ELSE E

mark_as_paid_ok(E, e) == E[e].exists /\ E[e].status = "processing"
mark_as_paid(E, e) ==
  IF mark_as_paid_ok(E, e) THEN [E EXCEPT ![e].status = "paid"] ELSE E

\* Earnings.cancel has no guard and always returns True
earnings_cancel(E, e, reason) ==
  [E EXCEPT ![e].status = "cancelled",
            ![e].notes = IF reason # NoValue THEN @ \cup {<<"Cancellation reason", reason>>} ELSE @]

\* ------------------------------------------------------- payouts/signals
\* post_save receiver of Payout: on creation every available earning of the
\* payout's partner becomes processing; whenever the saved payout is
\* completed every processing earning of the partner becomes paid.
handle_payout_processing(E, partner, created, status) ==
  LET E1 == IF created
            THEN [e \in RefIds |->
                    IF E[e].exists /\ E[e].partner = partner /\ E[e].status = "available"
                    THEN [E[e] EXCEPT !.status = "processing"] ELSE E[e]]
            ELSE E
  IN IF status = "completed"
     THEN [e \in RefIds |->
             IF E1[e].exists /\ E1[e].partner = partner /\ E1[e].status = "processing"
             THEN [E1[e] EXCEPT !.status = "paid"] ELSE E1[e]]
     ELSE E1

\* ------------------------------------------------------------ Payout.save
\* a save that writes a timeline row whether or not the status differs
PayoutSaveTimeline_every_save(T, P, p, row) ==
  IF P[p].exists
  THEN Append(T, [payout |-> p, status |-> row.status])
  ELSE T

\* A timeline row is written when the status to save differs from the
\* persisted one.
PayoutSaveTimeline(T, P, p, row) ==
  IF P[p].exists /\ P[p].status # row.status
  THEN Append(T, [payout |-> p, status |-> row.status])
  ELSE T

PayoutChanges(T, p) == Cardinality({i \in 1..Len(T) : T[i].payout = p})


\* The rows a handler works on: the payout table, the payout timeline and
\* the earnings table.
DB == [payouts |-> payouts, payoutTimeline |-> payoutTimeline, earnings |-> earnings]

\* Payout.save of an existing or new row followed by the post_save receiver
PayoutSave(D, p, row, created) ==
  [payouts |-> [D.payouts EXCEPT ![p] = row],
   payoutTimeline |-> PayoutSaveTimeline(D.payoutTimeline, D.payouts, p, row),
   earnings |-> handle_payout_processing(D.earnings, row.partner, created, row.status)]

earnings_included(E, p) == {e \in RefIds : E[e].exists /\ E[e].payout = p}

\* ---------------------------------------------------- Payout model methods
can_process(row) == row.status = "pending"
\* can_complete without the status test narrowed to processing
can_complete_loose(row) == row.status \in {"pending", "processing"}
can_complete(row) == row.status = "processing"
can_cancel(row) == row.status \in {"pending", "processing"}

Payout_process(D, p) ==
  PayoutSave(D, p, [D.payouts[p] EXCEPT !.status = "processing"], FALSE)

Payout_complete(D, p, tid) ==
  LET D1 == PayoutSave(D, p, [D.payouts[p] EXCEPT !.status = "completed",
                                                   !.processed_date = TRUE,
                                                   !.transaction_id = tid], FALSE)
      inc == earnings_included(D1.earnings, p)
  IN [D1 EXCEPT !.earnings =
        [e \in RefIds |-> IF e \in inc /\ D1.earnings[e].status = "processing"
                          THEN mark_as_paid(D1.earnings, e)[e] ELSE D1.earnings[e]]]

\* cancel that sets the earnings available but keeps their payout link
Payout_cancel_keeps_link(D, p, reason) ==
  LET D1 == PayoutSave(D, p, [D.payouts[p] EXCEPT
                 !.status = "cancelled",
                 !.note = IF reason # NoValue
                          THEN @ \cup {<<"Cancellation reason", reason>>} ELSE @], FALSE)
      inc == earnings_included(D1.earnings, p)
  IN [D1 EXCEPT !.earnings =
        [e \in RefIds |-> IF e \in inc /\ D1.earnings[e].status = "processing"
                          THEN [D1.earnings[e] EXCEPT !.status = "available"]
                          ELSE D1.earnings[e]]]

\* Payout.cancel on the instance inst that a request loaded earlier
Payout_cancel_on(D, p, inst, reason) ==
  LET D1 == PayoutSave(D, p, [inst EXCEPT
                 !.status = "cancelled",
                 !.note = IF reason # NoValue
                          THEN @ \cup {<<"Cancellation reason", reason>>} ELSE @], FALSE)
      inc == earnings_included(D1.earnings, p)
  IN [D1 EXCEPT !.earnings =
        [e \in RefIds |-> IF e \in inc /\ D1.earnings[e].status = "processing"
                          THEN [D1.earnings[e] EXCEPT !.status = "available", !.payout = NoPayout]
                          ELSE D1.earnings[e]]]

Payout_cancel(D, p, reason) == Payout_cancel_on(D, p, D.payouts[p], reason)

Payout_fail(D, p, msg) ==
  PayoutSave(D, p, [D.payouts[p] EXCEPT !.status = "failed",
                                        !.note = @ \cup {<<"Error", msg>>}], FALSE)

\* ------------------------------------------------------- PaymentProcessor
\* _process_bank_transfer: stamps payment_details with a reference and the
\* time (not kept in the model) and saves the payout as processing
\* _process_mpesa raises when payment_details has no phone_number
processor_raises(row) == row.payment_method = "mpesa" /\ ~row.pd_phone_number

process_payment(D, p) ==
  PayoutSave(D, p, [D.payouts[p] EXCEPT !.status = "processing"], FALSE)

\* the partner-wide queryset update both complete_payment and fail_payment end with
partner_earnings_update(E, partner, from, to) ==
  [e \in RefIds |-> IF E[e].exists /\ E[e].partner = partner /\ E[e].status = from
                    THEN [E[e] EXCEPT !.status = to] ELSE E[e]]

\* complete_payment on the instance inst that a request loaded earlier
complete_payment_on(D, p, inst, tid) ==
  LET D1 == PayoutSave(D, p, [inst EXCEPT
                 !.status = "completed",
                 !.processed_date = TRUE,
                 !.pd_transaction_id = IF tid # NoValue THEN tid ELSE @], FALSE)
  IN [D1 EXCEPT !.earnings =
        partner_earnings_update(D1.earnings, inst.partner, "processing", "paid")]

complete_payment(D, p, tid) == complete_payment_on(D, p, D.payouts[p], tid)

fail_payment(D, p, msg) ==
  LET D1 == PayoutSave(D, p, [D.payouts[p] EXCEPT !.status = "failed", !.pd_error = msg], FALSE)
  IN [D1 EXCEPT !.earnings =
        partner_earnings_update(D1.earnings, D.payouts[p].partner, "processing", "available")]

\* transaction.atomic / @atomic: the writes of a block that raised are undone
Atomic(before, after, raised) == IF raised THEN before ELSE after

\* the handler's writes become the new rows
Commit(D) ==
  /\ payouts' = D.payouts
  /\ payoutTimeline' = D.payoutTimeline
  /\ earnings' = D.earnings

\* PartnerProfile.referral_code of a partner
PartnerCode(pa) == IF pa = "A" THEN "CODE-A" ELSE "CODE-B"

\* Time is counted in weeks from the first submission.  The weeks that
\* Referral.save adds for a timeline choice; no entry for another value.
TimelineWeeks ==
  [tl \in {"Immediate", "1-3 months", "3-6 months", "6+ months"} |->
     IF tl = "Immediate" THEN 0 ELSE IF tl = "1-3 months" THEN 4
     ELSE IF tl = "3-6 months" THEN 12 ELSE 24]

\* a referral as submitted at time 0 by a user whose partner profile is pa,
\* or with the code "X1" by a user who has none
ReferralRow(pot, pa) ==
  [exists |-> TRUE, status |-> "pending", prev_status |-> NoValue,
   actual_commission |-> NoCommission,
   potential_commission |-> pot, partner |-> pa, user_partner |-> pa,
   referral_code |-> IF pa # NoValue THEN PartnerCode(pa) ELSE "X1",
   timeline |-> NoValue, date_submitted |-> 0, expected_implementation_date |-> NoDate,
   updated_at |-> 0]

Init ==
  /\ referrals = [r \in RefIds |-> ReferralRow(Potential(r), RefPartner(r))]
  /\ referralTimeline = [r \in RefIds |-> <<>>]
  /\ earnings = [e \in RefIds |-> NoEarning]
  /\ payouts = [p \in PayoutIds |-> NoPayoutRow]
  /\ payoutReferrals = {}
  /\ payoutTimeline = <<>>
  /\ payoutSettings = [pa \in Partners |-> NoSetting]
  /\ req = [c \in Clients |-> IdleReq]
  /\ last = Response("init", 0, "ok")

\* ------------------------------------------------- Referral.save, status
\* create_earning: nothing when the referral already has an earning or no
\* partner; else one Earnings row, available when the amount is positive.
\* create_earning that makes every new earning available, whatever its amount
create_earning_available(E, r, partner, actual) ==
  IF E[r].exists \/ partner = NoValue THEN E
  ELSE [E EXCEPT ![r] = [exists |-> TRUE, partner |-> partner, amount |-> actual,
                         status |-> "available", payout |-> NoPayout, notes |-> {}]]

\* create_earning without the test for a partner
create_earning_without_partner(E, r, partner, actual) ==
  IF E[r].exists THEN E
  ELSE [E EXCEPT ![r] = [exists |-> TRUE, partner |-> partner, amount |-> actual,
                         status |-> IF actual > 0 THEN "available" ELSE "pending",
                         payout |-> NoPayout, notes |-> {}]]

create_earning(E, r, partner, actual) ==
  IF E[r].exists \/ partner = NoValue THEN E
  ELSE [E EXCEPT ![r] = [exists |-> TRUE, partner |-> partner, amount |-> actual,
                         status |-> IF actual > 0 THEN "available" ELSE "pending",
                         payout |-> NoPayout, notes |-> {}]]

\* the receiver without the test for an earning the referral already has
handle_referral_conversion_again(E, r, row) ==
  IF row.status = "converted" /\ row.partner # NoValue
  THEN [E EXCEPT ![r] = [exists |-> TRUE, partner |-> row.partner,
                         amount |-> row.actual_commission,
                         status |-> IF row.actual_commission > 0 THEN "available" ELSE "pending",
                         payout |-> NoPayout, notes |-> {}]]
  ELSE E

\* the post_save receiver of Referral
handle_referral_conversion(E, r, row) ==
  IF row.status = "converted"
  THEN create_earning(E, r, row.partner, row.actual_commission) ELSE E

\* Referral.save of the instance inst of referral r, with the receiver that
\* super().save() runs: the tables after it.  The estimate derived from the
\* product is not kept: potential_commission is what the form carries.
Referral_save(R, T, E, r, inst) ==
  LET old_instance == R[r]
      partner == IF inst.partner = NoValue THEN inst.user_partner ELSE inst.partner
      \* timezone.now() is the time the instance carries in updated_at
      now == inst.updated_at
      \* without a pk there is no old instance to compare with
      status_changed == old_instance.exists /\ old_instance.status # inst.status
      \* "not self.actual_commission" is true of None and of 0
      actual == IF inst.status = "converted" /\ inst.actual_commission \in {NoCommission, 0}
                THEN inst.potential_commission ELSE inst.actual_commission
      row == [inst EXCEPT !.exists = TRUE,
                          !.partner = partner,
                          !.referral_code = IF @ = NoValue /\ partner # NoValue
                                            THEN PartnerCode(partner) ELSE @,
                          !.expected_implementation_date =
                             IF inst.timeline \in DOMAIN TimelineWeeks
                             THEN now + TimelineWeeks[inst.timeline] ELSE @,
                          !.date_submitted = IF old_instance.exists THEN @ ELSE now,
                          !.prev_status = IF status_changed THEN old_instance.status ELSE @,
                          !.actual_commission = actual]
      E1 == handle_referral_conversion(E, r, row)
      E2 == IF row.status = "converted"
            THEN create_earning(E1, r, row.partner, row.actual_commission) ELSE E1
  IN [referrals |-> [R EXCEPT ![r] = row],
      referralTimeline |-> [T EXCEPT ![r] = IF status_changed THEN Append(@, row.status) ELSE @],
      earnings |-> E2]

\* ReferralViewSet.update_status, while the referral has fewer than limit
\* timeline entries
ReferralUpdateStatusN(limit, r, s) ==
  /\ Idle /\ referrals[r].exists
  /\ Len(referralTimeline[r]) < limit
  /\ LET db == Referral_save(referrals, referralTimeline, earnings, r,
                             [referrals[r] EXCEPT !.status = s])
     IN /\ referrals' = db.referrals
        /\ referralTimeline' = db.referralTimeline
        /\ earnings' = db.earnings
  /\ last' = Response("referral_update_status", r, "ok")
  /\ UNCHANGED <<payoutSettings, payouts, payoutReferrals, payoutTimeline, req>>

\* A status update of a referral: Referral.save and then the post_save
\* receiver handle_referral_conversion.
ReferralUpdateStatus(r, s) == ReferralUpdateStatusN(MaxRefChanges, r, s)

\* ReferralAdmin change form: status, potential_commission and partner are
\* editable, actual_commission is read-only
ReferralAdminSave(r, s, pot, partner) ==
  /\ Idle /\ referrals[r].exists
  /\ s # referrals[r].status => Len(referralTimeline[r]) < MaxRefSaves
  /\ LET db == Referral_save(referrals, referralTimeline, earnings, r,
                             [referrals[r] EXCEPT !.status = s,
                                                  !.potential_commission = pot,
                                                  !.partner = partner])
     IN /\ referrals' = db.referrals
        /\ referralTimeline' = db.referralTimeline
        /\ earnings' = db.earnings
  /\ last' = Response("referral_admin_save", r, "ok")
  /\ UNCHANGED <<payoutSettings, payouts, payoutReferrals, payoutTimeline, req>>

\* ReferralCreateSerializer.create: the partner's code before the supplied one
final_referral_code_supplied_first(user_code, raw) == IF raw # NoValue THEN raw ELSE user_code
final_referral_code(user_code, raw) == IF user_code # NoValue THEN user_code ELSE raw

\* ReferralViewSet.create at time t by the user of referral slot r, with the
\* referral code and the timeline the request carries (NoValue: not in the
\* request).  Without a code of either kind the serializer raises a
\* validation error before anything is saved.
ReferralCreate(r, raw, tl, t) ==
  /\ Idle /\ ~referrals[r].exists
  /\ LET user_partner == referrals[r].user_partner
         user_code == IF user_partner # NoValue THEN PartnerCode(user_partner) ELSE NoValue
         code == final_referral_code(user_code, raw)
         inst == [ReferralRow(referrals[r].potential_commission, NoValue) EXCEPT
                    !.user_partner = user_partner, !.referral_code = code,
                    !.timeline = tl, !.updated_at = t]
         db == Referral_save(referrals, referralTimeline, earnings, r, inst)
     IN IF code = NoValue
        THEN /\ last' = Response("referral_create", r, "400")
             /\ UNCHANGED <<referrals, referralTimeline, earnings>>
        ELSE /\ referrals' = db.referrals
             /\ referralTimeline' = db.referralTimeline
             /\ earnings' = db.earnings
             /\ last' = Response("referral_create", r, "ok")
  /\ UNCHANGED <<payoutSettings, payouts, payoutReferrals, payoutTimeline, req>>

\* ReferralViewSet.update_status at time t of a request that carries a
\* timeline (None included) and no status
ReferralUpdateTimeline(r, tl, t) ==
  /\ Idle /\ referrals[r].exists
  /\ t >= referrals[r].updated_at
  /\ LET db == Referral_save(referrals, referralTimeline, earnings, r,
                             [referrals[r] EXCEPT !.timeline = tl, !.updated_at = t])
     IN /\ referrals' = db.referrals
        /\ referralTimeline' = db.referralTimeline
        /\ earnings' = db.earnings
  /\ last' = Response("referral_update_status", r, "ok")
  /\ UNCHANGED <<payoutSettings, payouts, payoutReferrals, payoutTimeline, req>>

\* ReferralViewSet.add_timeline_note: 400 without a note, else one
\* ReferralTimeline row with the referral's current status
AddTimelineNote(r, has_note) ==
  /\ Idle /\ referrals[r].exists
  /\ Len(referralTimeline[r]) < MaxRefSaves
  /\ referralTimeline' = [referralTimeline EXCEPT ![r] =
        IF has_note THEN Append(@, referrals[r].status) ELSE @]
  /\ last' = Response("add_timeline_note", r, IF has_note THEN "ok" ELSE "400")
  /\ UNCHANGED <<payoutSettings, referrals, earnings, payouts, payoutReferrals, payoutTimeline, req>>


\* -------------------------------------------------- Earnings operations
\* EarningsAdmin.mark_as_available on one selected earning
EarningsMarkAvailable(e) ==
  /\ Idle /\ earnings[e].exists
  /\ earnings' = mark_as_available(earnings, e)
  /\ last' = Response("mark_as_available", e, IF mark_as_available_ok(earnings, e) THEN "ok" ELSE "false")
  /\ UNCHANGED <<payoutSettings, referrals, referralTimeline, payouts, payoutReferrals, payoutTimeline, req>>

\* EarningsAdmin.mark_as_processing on one selected earning (no payout given)
EarningsMarkProcessing(e) ==
  /\ Idle /\ earnings[e].exists
  /\ earnings' = mark_as_processing(earnings, e, NoPayout)
  /\ last' = Response("mark_as_processing", e, IF mark_as_processing_ok(earnings, e) THEN "ok" ELSE "false")
  /\ UNCHANGED <<payoutSettings, referrals, referralTimeline, payouts, payoutReferrals, payoutTimeline, req>>

\* EarningsAdmin.mark_as_paid on one selected earning
EarningsMarkPaid(e) ==
  /\ Idle /\ earnings[e].exists
  /\ earnings' = mark_as_paid(earnings, e)
  /\ last' = Response("mark_as_paid", e, IF mark_as_paid_ok(earnings, e) THEN "ok" ELSE "false")
  /\ UNCHANGED <<payoutSettings, referrals, referralTimeline, payouts, payoutReferrals, payoutTimeline, req>>

\* Earnings.cancel
EarningsCancel(e, reason) ==
  /\ Idle /\ earnings[e].exists
  /\ earnings' = earnings_cancel(earnings, e, reason)
  /\ last' = Response("earnings_cancel", e, "ok")
  /\ UNCHANGED <<payoutSettings, referrals, referralTimeline, payouts, payoutReferrals, payoutTimeline, req>>

\* EarningsViewSet.approve and reject: 403 for a non-staff caller; for staff
\* the comparison with Earnings.Status.PENDING_APPROVAL raises, because the
\* Status class has no such member, before anything is written.
EarningsApproveReject(op, caller, e) ==
  /\ Idle /\ earnings[e].exists
  /\ last' = Response(op, e, IF ~IsStaff(caller) THEN "403" ELSE "500")
  /\ UNCHANGED <<payoutSettings, referrals, referralTimeline, earnings, payouts, payoutReferrals,
                 payoutTimeline, req>>

\* EarningsUpdateSerializer: Meta.fields and validate
EarningsUpdateFields == {"notes"}
\* validate that lets a request with a status field through
EarningsUpdateSerializer_validate_any(data) == TRUE
EarningsUpdateSerializer_validate(data) == data.status = NoValue

\* EarningsViewSet update / partial_update of a request that carries data:
\* a status and notes, each of them or NoValue when the request has not the
\* field.  A non-staff caller reaches its own partner's earnings only.
EarningsUpdate(caller, e, data) ==
  /\ Idle /\ earnings[e].exists
  /\ LET res == IF ~IsStaff(caller) /\ earnings[e].partner # PartnerOf(caller) THEN "404"
                ELSE IF ~EarningsUpdateSerializer_validate(data) THEN "400"
                ELSE "ok"
         status == IF "status" \in EarningsUpdateFields /\ data.status # NoValue
                   THEN data.status ELSE earnings[e].status
         notes == IF "notes" \in EarningsUpdateFields /\ data.notes # NoValue
                  THEN {<<"notes", data.notes>>} ELSE earnings[e].notes
     IN /\ earnings' = IF res = "ok"
                       THEN [earnings EXCEPT ![e].status = status, ![e].notes = notes]
                       ELSE earnings
        /\ last' = Response("earnings_update", e, res)
  /\ UNCHANGED <<payoutSettings, referrals, referralTimeline, payouts, payoutReferrals, payoutTimeline, req>>

\* EarningsViewSet.mark_paid
EarningsMarkPaidEndpoint(e, payout_id) ==
  /\ Idle /\ earnings[e].exists
  /\ LET st == earnings[e].status
         res == IF st \notin {"available", "paid"} THEN "400"
                ELSE IF payout_id = NoPayout THEN "400"
                ELSE IF ~payouts[payout_id].exists THEN "404"
                ELSE "ok"
     IN /\ earnings' = IF res = "ok" /\ st # "paid"
                       THEN [earnings EXCEPT ![e].status = "paid", ![e].payout = payout_id]
                       ELSE earnings
        /\ last' = Response("mark_paid", e, res)
  /\ UNCHANGED <<payoutSettings, referrals, referralTimeline, payouts, payoutReferrals, payoutTimeline, req>>

\* ------------------------------------------------------ PayoutSetting
\* the bank fields in the order the validators test them
BankFields == <<"account_name", "account_number", "routing_number", "bank_name">>

\* the fields the validators of a payout setting test for a method
SettingRequired(method) ==
  IF method = "bank" THEN {BankFields[i] : i \in DOMAIN BankFields}
  ELSE IF method = "paypal" THEN {"email"}
  ELSE IF method = "mpesa" THEN {"phone_number"}
  ELSE IF method = "stripe" THEN {"account_id"}
  ELSE {"wallet_address"}

\* the loop over the bank fields raises at the first field without a value
first_missing(details) ==
  LET missing == {i \in DOMAIN BankFields : BankFields[i] \notin details}
  IN IF missing = {} THEN {}
     ELSE {BankFields[CHOOSE i \in missing : \A j \in missing : i <= j]}

\* PayoutSettingSerializer.validate_payment_details: the fields its error
\* names, none when the details are valid
validate_payment_details(method, details) ==
  IF method = "bank" THEN first_missing(details) ELSE SettingRequired(method) \ details

\* PayoutSetting.clean: the same tests, without one for crypto
PayoutSetting_clean(method, details) ==
  IF method = "crypto" THEN {} ELSE validate_payment_details(method, details)

\* the answer to a request that writes a payout setting, with the fields an
\* error names
SettingResponse(result, named) ==
  [op |-> "request", id |-> 0, result |-> result, named |-> named]

\* PayoutSettingViewSet.create: the serializer validates payment_details
\* and the uniqueness of the partner, then saves
PayoutSettingCreate(caller, pin, method, details) ==
  /\ Idle
  /\ LET partner == IF IsStaff(caller) THEN pin ELSE PartnerOf(caller)
         named == validate_payment_details(method, details)
                    \cup (IF payoutSettings[partner].exists THEN {"partner"} ELSE {})
     IN IF named # {}
        THEN /\ last' = SettingResponse("error", named)
             /\ UNCHANGED payoutSettings
        ELSE /\ payoutSettings' = [payoutSettings EXCEPT ![partner] =
                    [exists |-> TRUE, payment_method |-> method, payment_details |-> details]]
             /\ last' = SettingResponse("ok", {})
  /\ UNCHANGED <<referrals, referralTimeline, earnings, payouts, payoutReferrals,
                 payoutTimeline, req>>

\* PayoutViewSet.update_my_settings of a partner's user: get_or_create, the
\* view's own tests (its bank error names no field), full_clean, save
UpdateMySettings(caller, method, details) ==
  /\ Idle /\ ~IsStaff(caller)
  /\ LET partner == PartnerOf(caller)
         got == IF payoutSettings[partner].exists THEN payoutSettings
                ELSE [payoutSettings EXCEPT ![partner] =
                        [exists |-> TRUE, payment_method |-> "bank", payment_details |-> {}]]
         refused == SettingRequired(method) \ details # {} /\ method # "crypto"
         named == IF method = "bank" THEN {} ELSE SettingRequired(method) \ details
         cleaned == PayoutSetting_clean(method, details)
     IN IF refused
        THEN /\ last' = SettingResponse("error", named)
             /\ payoutSettings' = got
        ELSE IF cleaned # {}
        THEN /\ last' = SettingResponse("error", cleaned)
             /\ payoutSettings' = got
        ELSE /\ payoutSettings' = [got EXCEPT ![partner].payment_method = method,
                                              ![partner].payment_details = details]
             /\ last' = SettingResponse("ok", {})
  /\ UNCHANGED <<referrals, referralTimeline, earnings, payouts, payoutReferrals,
                 payoutTimeline, req>>

\* ---------------------------------------------------- payout creation
FreePayoutIds(limit) ==
  {p \in 1..limit : ~payouts[p].exists /\ \A c \in Clients : req[c].pid # p}

\* the first k referrals of S in id order
FirstK(S, k) == {r \in S : Cardinality({x \in S : x < r}) < k}

\* PayoutCreateSerializer.create up to the evaluation of the referral query:
\* the payout row is inserted, the post_save receiver runs, and the referrals
\* are selected, all inside the request's transaction.  The result is the
\* request's in-memory state.
CreateReads(limit, caller, pin, amount, ids) ==
  LET partner == IF IsStaff(caller) THEN pin ELSE PartnerOf(caller)
      view == handle_payout_processing(earnings, partner, TRUE, "pending")
  IN [pc |-> "selected", partner |-> partner, requested_by |-> caller,
      amount |-> amount, ids |-> ids,
      pid |-> CHOOSE p \in FreePayoutIds(limit) : \A q \in FreePayoutIds(limit) : p <= q,
      selected |-> {r \in ids : /\ referrals[r].status = "converted"
                                 /\ view[r].exists
                                 /\ view[r].status = "available"},
      flipped |-> {e \in RefIds : view[e] # earnings[e]},
      overlap |-> {req[x].pid : x \in {d \in Clients : req[d].pc = "selected"}},
      \* a bank transfer, unless the request says otherwise
      payment_method |-> "bank", pd_phone_number |-> FALSE, inst |-> NoPayoutRow]

\* The rows after the insert, the receiver, k rounds of the loop over the
\* selected referrals and, when done is set, the final payout.save().
CreateWrites(r, k, done) ==
  LET row == [NoPayoutRow EXCEPT !.exists = TRUE, !.partner = r.partner,
                                 !.requested_by = r.requested_by, !.amount = r.amount,
                                 !.payment_method = r.payment_method,
                                 !.pd_phone_number = r.pd_phone_number]
      D1 == [payouts |-> [payouts EXCEPT ![r.pid] = row],
             payoutTimeline |-> payoutTimeline,
             earnings |-> [e \in RefIds |-> IF e \in r.flipped
                                            THEN [earnings[e] EXCEPT !.status = "processing"]
                                            ELSE earnings[e]]]
      taken == FirstK(r.selected, k)
      \* referral.earning is the instance the query loaded: still available
      loaded == [e \in RefIds |-> [earnings[e] EXCEPT !.status = "available"]]
      E2 == [e \in RefIds |-> IF e \in taken THEN mark_as_processing(loaded, e, r.pid)[e]
                              ELSE D1.earnings[e]]
      total == SumAmounts(earnings, taken)
      D2 == [D1 EXCEPT !.earnings = E2]
  IN [db |-> IF done /\ r.ids # {}
             THEN PayoutSave(D2, r.pid, [row EXCEPT !.amount = total], FALSE)
             ELSE D2,
      rows |-> payoutReferrals \cup
               {[payout |-> r.pid, referral |-> x, amount |-> earnings[x].amount] : x \in taken}]

\* The create endpoint as one transaction that nothing overlaps, while fewer
\* than limit payouts exist; raised is an exception after k rounds of the
\* loop, which @atomic turns into a rollback.
PayoutCreateN(limit, caller, pin, amount, ids, k, raised) ==
  /\ Idle /\ FreePayoutIds(limit) # {}
  /\ LET r == CreateReads(limit, caller, pin, amount, ids)
         before == [db |-> DB, rows |-> payoutReferrals]
         after == Atomic(before, CreateWrites(r, k, ~raised), raised)
     IN /\ k \in 0..Cardinality(r.selected)
        /\ ~raised => k = Cardinality(r.selected)
        /\ Commit(after.db)
        /\ payoutReferrals' = after.rows
        /\ last' = Response("create", r.pid, IF raised THEN "500" ELSE "ok")
  /\ UNCHANGED <<payoutSettings, referrals, referralTimeline, req>>

PayoutCreate(caller, pin, amount, ids, k, raised) ==
  PayoutCreateN(MaxSeqPayouts, caller, pin, amount, ids, k, raised)

\* The same endpoint in two steps, for requests that overlap.  Begin runs
\* the reads in the request's transaction.
PayoutCreateBegin(c, caller, pin, amount, ids) ==
  /\ req[c].pc = "idle"
  /\ FreePayoutIds(MaxPayouts) # {}
  /\ LET r == CreateReads(MaxPayouts, caller, pin, amount, ids)
         inflight == {d \in Clients : req[d].pc = "selected"}
     IN \* the receiver's UPDATE waits for rows another open transaction wrote
        /\ \A d \in inflight : req[d].flipped \cap r.flipped = {}
        /\ req' = [d \in Clients |->
             IF d = c THEN r
             ELSE IF d \in inflight THEN [req[d] EXCEPT !.overlap = @ \cup {r.pid}]
             ELSE req[d]]
  /\ UNCHANGED <<payoutSettings, referrals, referralTimeline, earnings, payouts, payoutReferrals,
                 payoutTimeline, last>>

\* Commit runs the loop, the final save and the commit of the transaction.
PayoutCreateCommit(c, k, raised) ==
  /\ req[c].pc = "selected"
  /\ k \in 0..Cardinality(req[c].selected)
  /\ ~raised => k = Cardinality(req[c].selected)
  \* a row another open transaction has written cannot be saved before it ends
  /\ ~raised => \A d \in Clients \ {c} : req[d].flipped \cap req[c].selected = {}
  /\ LET before == [db |-> DB, rows |-> payoutReferrals]
         after == Atomic(before, CreateWrites(req[c], k, ~raised), raised)
     IN /\ Commit(after.db)
        /\ payoutReferrals' = after.rows
  /\ req' = [d \in Clients |->
               IF d = c THEN IdleReq
               ELSE [req[d] EXCEPT !.overlap = @ \ (IF raised THEN {req[c].pid} ELSE {})]]
  /\ last' = Response("create", req[c].pid, IF raised THEN "500" ELSE "ok")
  /\ UNCHANGED <<payoutSettings, referrals, referralTimeline>>

\* The create endpoint for a request that names its payment method;
\* validate_payment_details refuses M-Pesa details without a phone number.
PayoutCreateMethod(caller, pin, amount, ids, method, phone) ==
  /\ Idle /\ FreePayoutIds(MaxSeqPayouts) # {}
  /\ IF method = "mpesa" /\ ~phone
     THEN /\ last' = Response("create", 0, "400")
          /\ UNCHANGED <<earnings, payouts, payoutTimeline, payoutReferrals>>
     ELSE LET r == [CreateReads(MaxSeqPayouts, caller, pin, amount, ids) EXCEPT
                      !.payment_method = method, !.pd_phone_number = phone]
              after == CreateWrites(r, Cardinality(r.selected), TRUE)
          IN /\ Commit(after.db)
             /\ payoutReferrals' = after.rows
             /\ last' = Response("create", r.pid, "ok")
  /\ UNCHANGED <<payoutSettings, referrals, referralTimeline, req>>

\* ------------------------------------------------ PayoutViewSet actions
\* process: PaymentProcessingError of the processor is caught nowhere
PayoutProcess(p) ==
  /\ Idle /\ payouts[p].exists
  /\ IF ~can_process(payouts[p])
     THEN /\ last' = Response("process", p, "400")
          /\ UNCHANGED <<earnings, payouts, payoutTimeline>>
     ELSE IF processor_raises(payouts[p])
     THEN /\ last' = Response("process", p, "500")
          /\ UNCHANGED <<earnings, payouts, payoutTimeline>>
     ELSE /\ Commit(process_payment(DB, p))
          /\ last' = Response("process", p, "ok")
  /\ UNCHANGED <<payoutSettings, referrals, referralTimeline, payoutReferrals, req>>

PayoutComplete(p, tid) ==
  /\ Idle /\ payouts[p].exists
  /\ IF ~can_complete(payouts[p])
     THEN /\ last' = Response("complete", p, "400")
          /\ UNCHANGED <<earnings, payouts, payoutTimeline>>
     ELSE /\ Commit(Atomic(DB, complete_payment(DB, p, tid), FALSE))
          /\ last' = Response("complete", p, "ok")
  /\ UNCHANGED <<payoutSettings, referrals, referralTimeline, payoutReferrals, req>>

PayoutFail(p, msg) ==
  /\ Idle /\ payouts[p].exists
  /\ IF payouts[p].status \notin {"pending", "processing"}
     THEN /\ last' = Response("fail", p, "400")
          /\ UNCHANGED <<earnings, payouts, payoutTimeline>>
     ELSE /\ Commit(fail_payment(DB, p, msg))
          /\ last' = Response("fail", p, "ok")
  /\ UNCHANGED <<payoutSettings, referrals, referralTimeline, payoutReferrals, req>>

PayoutCancel(p, reason) ==
  /\ Idle /\ payouts[p].exists
  /\ IF ~can_cancel(payouts[p])
     THEN /\ last' = Response("cancel", p, "400")
          /\ UNCHANGED <<earnings, payouts, payoutTimeline>>
     ELSE /\ Commit(Payout_cancel(DB, p, reason))
          /\ last' = Response("cancel", p, "ok")
  /\ UNCHANGED <<payoutSettings, referrals, referralTimeline, payoutReferrals, req>>

\* complete and cancel in two steps, for requests on one payout that
\* overlap.  Begin is get_object and the test of can_complete / can_cancel
\* on the loaded instance; a refused request ends there.
PayoutCompleteBegin(c, p) ==
  /\ req[c].pc = "idle" /\ payouts[p].exists
  /\ \A d \in Clients : req[d].pc # "selected"
  /\ IF can_complete(payouts[p])
     THEN /\ req' = [req EXCEPT ![c] = [IdleReq EXCEPT !.pc = "complete", !.pid = p,
                                                      !.inst = payouts[p]]]
          /\ UNCHANGED last
     ELSE /\ last' = Response("complete", p, "400")
          /\ UNCHANGED req
  /\ UNCHANGED <<payoutSettings, referrals, referralTimeline, earnings, payouts, payoutReferrals, payoutTimeline>>

PayoutCancelBegin(c, p) ==
  /\ req[c].pc = "idle" /\ payouts[p].exists
  /\ \A d \in Clients : req[d].pc # "selected"
  /\ IF can_cancel(payouts[p])
     THEN /\ req' = [req EXCEPT ![c] = [IdleReq EXCEPT !.pc = "cancel", !.pid = p,
                                                      !.inst = payouts[p]]]
          /\ UNCHANGED last
     ELSE /\ last' = Response("cancel", p, "400")
          /\ UNCHANGED req
  /\ UNCHANGED <<payoutSettings, referrals, referralTimeline, earnings, payouts, payoutReferrals, payoutTimeline>>

\* The rest of the request: the writes of complete_payment / Payout.cancel,
\* made from the instance the request loaded
PayoutCompleteCommit(c, tid) ==
  /\ req[c].pc = "complete"
  /\ Commit(Atomic(DB, complete_payment_on(DB, req[c].pid, req[c].inst, tid), FALSE))
  /\ req' = [req EXCEPT ![c] = IdleReq]
  /\ last' = Response("complete", req[c].pid, "ok")
  /\ UNCHANGED <<payoutSettings, referrals, referralTimeline, payoutReferrals>>

PayoutCancelCommit(c, reason) ==
  /\ req[c].pc = "cancel"
  /\ Commit(Payout_cancel_on(DB, req[c].pid, req[c].inst, reason))
  /\ req' = [req EXCEPT ![c] = IdleReq]
  /\ last' = Response("cancel", req[c].pid, "ok")
  /\ UNCHANGED <<payoutSettings, referrals, referralTimeline, payoutReferrals>>

\* PayoutUpdateSerializer.update for a request that carries status s.  When
\* the request completes the payout, the call of _update_associated_earnings,
\* which Payout does not define, raises inside the atomic block.
PayoutUpdate(p, s) ==
  /\ Idle /\ payouts[p].exists
  /\ s # payouts[p].status => PayoutChanges(payoutTimeline, p) < MaxPayoutChanges
  /\ LET completing_payout == s = "completed" /\ payouts[p].status # "completed"
         row == [payouts[p] EXCEPT
                   !.status = s,
                   !.processed_date = IF s # payouts[p].status /\ s = "completed" THEN TRUE ELSE @]
     IN /\ Commit(Atomic(DB, PayoutSave(DB, p, row, FALSE), completing_payout))
        /\ last' = Response("update", p, IF completing_payout THEN "500" ELSE "ok")
  /\ UNCHANGED <<payoutSettings, referrals, referralTimeline, payoutReferrals, req>>

\* The generic update for a request that carries payment_method only
PayoutUpdateMethod(p, method) ==
  /\ Idle /\ payouts[p].exists
  /\ Commit(PayoutSave(DB, p, [payouts[p] EXCEPT !.payment_method = method], FALSE))
  /\ last' = Response("update", p, "ok")
  /\ UNCHANGED <<payoutSettings, referrals, referralTimeline, payoutReferrals, req>>

\* PayoutViewSet.force_update_earnings
ForceUpdateEarnings(caller, p) ==
  /\ Idle /\ payouts[p].exists
  /\ IF ~IsStaff(caller)
     THEN /\ last' = Response("force_update_earnings", p, "403")
          /\ UNCHANGED earnings
     ELSE /\ earnings' = [e \in RefIds |->
                IF earnings[e].exists /\ earnings[e].partner = payouts[p].partner
                   /\ earnings[e].status = "available"
                THEN [earnings[e] EXCEPT !.status = "paid", !.payout = p]
                ELSE earnings[e]]
          /\ last' = Response("force_update_earnings", p, "ok")
  /\ UNCHANGED <<payoutSettings, referrals, referralTimeline, payouts, payoutReferrals, payoutTimeline, req>>

\* ----------------------------------------------- PayoutAdmin bulk actions
\* each on a selection of one payout
AdminMarkAsProcessing(p) ==
  /\ Idle /\ payouts[p].exists
  /\ IF payouts[p].status = "pending" THEN Commit(Payout_process(DB, p))
     ELSE UNCHANGED <<earnings, payouts, payoutTimeline>>
  /\ last' = Response("admin_mark_as_processing", p, "ok")
  /\ UNCHANGED <<payoutSettings, referrals, referralTimeline, payoutReferrals, req>>

AdminMarkAsCompleted(p) ==
  /\ Idle /\ payouts[p].exists
  /\ IF payouts[p].status = "processing" THEN Commit(Payout_complete(DB, p, NoValue))
     ELSE UNCHANGED <<earnings, payouts, payoutTimeline>>
  /\ last' = Response("admin_mark_as_completed", p, "ok")
  /\ UNCHANGED <<payoutSettings, referrals, referralTimeline, payoutReferrals, req>>

AdminMarkAsFailed(p) ==
  /\ Idle /\ payouts[p].exists
  /\ IF payouts[p].status # "completed"
     THEN Commit(Payout_fail(DB, p, "Admin action"))
     ELSE UNCHANGED <<earnings, payouts, payoutTimeline>>
  /\ last' = Response("admin_mark_as_failed", p, "ok")
  /\ UNCHANGED <<payoutSettings, referrals, referralTimeline, payoutReferrals, req>>

Next ==
  \/ \E r \in RefIds, s \in StatusInputs : ReferralUpdateStatus(r, s)
  \/ \E e \in RefIds : EarningsMarkAvailable(e)
  \/ \E e \in RefIds : EarningsMarkProcessing(e)
  \/ \E e \in RefIds : EarningsMarkPaid(e)
  \/ \E e \in RefIds, reason \in ReasonInputs : EarningsCancel(e, reason)
  \/ \E op \in {"approve", "reject"}, u \in Callers, e \in RefIds : EarningsApproveReject(op, u, e)
  \/ \E e \in RefIds, p \in PayoutIds \cup {NoPayout} : EarningsMarkPaidEndpoint(e, p)
  \/ \E u \in Callers, pin \in Partners, a \in AmountInputs, ids \in SUBSET RefIds,
        k \in 0..Cardinality(RefIds), raised \in BOOLEAN : PayoutCreate(u, pin, a, ids, k, raised)
  \/ \E p \in PayoutIds : PayoutProcess(p)
  \/ \E p \in PayoutIds, tid \in TxInputs : PayoutComplete(p, tid)
  \/ \E p \in PayoutIds, msg \in ErrInputs : PayoutFail(p, msg)
  \/ \E p \in PayoutIds, reason \in ReasonInputs : PayoutCancel(p, reason)
  \/ \E p \in PayoutIds, s \in UpdateInputs : PayoutUpdate(p, s)
  \/ \E u \in Callers, p \in PayoutIds : ForceUpdateEarnings(u, p)
  \/ \E p \in PayoutIds : AdminMarkAsProcessing(p)
  \/ \E p \in PayoutIds : AdminMarkAsCompleted(p)
  \/ \E p \in PayoutIds : AdminMarkAsFailed(p)

Spec == Init /\ [][Next]_vars

\* Two payout-create requests that may overlap, on referrals that convert
NextRace ==
  \/ \E r \in RefIds, s \in StatusInputs : ReferralUpdateStatus(r, s)
  \/ \E c \in Clients, u \in Callers, pin \in Partners, a \in AmountInputs, ids \in SUBSET RefIds :
        PayoutCreateBegin(c, u, pin, a, ids)
  \/ \E c \in Clients, k \in 0..Cardinality(RefIds), raised \in BOOLEAN : PayoutCreateCommit(c, k, raised)

SpecRace == Init /\ [][NextRace]_vars

\* One referral saved again and again; when its user has no partner profile
\* it starts without a partner
SavedRefs == {1}

InitReferral ==
  /\ \E pot \in PotentialInputs, pa \in {"A", NoValue} :
       referrals = [r \in RefIds |-> IF r \in SavedRefs THEN ReferralRow(pot, pa)
                                     ELSE ReferralRow(Potential(r), RefPartner(r))]
  /\ referralTimeline = [r \in RefIds |-> <<>>]
  /\ earnings = [e \in RefIds |-> NoEarning]
  /\ payouts = [p \in PayoutIds |-> NoPayoutRow]
  /\ payoutReferrals = {}
  /\ payoutTimeline = <<>>
  /\ payoutSettings = [pa \in Partners |-> NoSetting]
  /\ req = [c \in Clients |-> IdleReq]
  /\ last = Response("init", 0, "ok")

NextReferral ==
  \/ \E r \in SavedRefs, s \in SaveInputs : ReferralUpdateStatusN(MaxRefSaves, r, s)
  \/ \E r \in SavedRefs, s \in SaveInputs \cup {"pending"}, pot \in PotentialInputs,
        pa \in {"A", NoValue} : ReferralAdminSave(r, s, pot, pa)
  \/ \E r \in SavedRefs, has_note \in BOOLEAN : AddTimelineNote(r, has_note)
  \/ \E e \in SavedRefs : EarningsMarkProcessing(e)
  \/ \E e \in SavedRefs : EarningsMarkPaid(e)

SpecReferral == InitReferral /\ [][NextReferral]_vars

\* The earnings endpoints and model methods, on the earnings of referrals
\* that convert
NextEarnings ==
  \/ \E r \in RefIds, s \in StatusInputs : ReferralUpdateStatus(r, s)
  \/ \E e \in RefIds : EarningsMarkProcessing(e)
  \/ \E e \in RefIds : EarningsMarkPaid(e)
  \/ \E e \in RefIds, reason \in ReasonInputs : EarningsCancel(e, reason)
  \/ \E u \in Callers, e \in RefIds, st \in {NoValue, "paid"}, n \in NotesInputs \cup {NoValue} :
        EarningsUpdate(u, e, [status |-> st, notes |-> n])

SpecEarnings == Init /\ [][NextEarnings]_vars

\* Payouts by bank transfer and M-Pesa, created, changed and processed
NextProcess ==
  \/ \E u \in Callers, pin \in Partners, a \in AmountInputs, m \in MethodInputs,
        phone \in BOOLEAN : PayoutCreateMethod(u, pin, a, {}, m, phone)
  \/ \E p \in PayoutIds, m \in MethodInputs : PayoutUpdateMethod(p, m)
  \/ \E p \in PayoutIds : PayoutProcess(p)
  \/ \E p \in PayoutIds, tid \in TxInputs : PayoutComplete(p, tid)
  \/ \E p \in PayoutIds, msg \in ErrInputs : PayoutFail(p, msg)
  \/ \E p \in PayoutIds, reason \in ReasonInputs : PayoutCancel(p, reason)

SpecProcess == Init /\ [][NextProcess]_vars

\* Referrals submitted by a user with or without partner profile, at some
\* week, and saved again later
SubmittedRefs == {1}

InitSubmit ==
  /\ \E pa \in {"A", NoValue} :
       referrals = [r \in RefIds |->
                      IF r \in SubmittedRefs
                      THEN [ReferralRow(Potential(r), pa) EXCEPT !.exists = FALSE,
                                                                 !.partner = NoValue,
                                                                 !.referral_code = NoValue]
                      ELSE ReferralRow(Potential(r), RefPartner(r))]
  /\ referralTimeline = [r \in RefIds |-> <<>>]
  /\ earnings = [e \in RefIds |-> NoEarning]
  /\ payouts = [p \in PayoutIds |-> NoPayoutRow]
  /\ payoutReferrals = {}
  /\ payoutTimeline = <<>>
  /\ payoutSettings = [pa \in Partners |-> NoSetting]
  /\ req = [c \in Clients |-> IdleReq]
  /\ last = Response("init", 0, "ok")

NextSubmit ==
  \/ \E r \in SubmittedRefs, raw \in CodeInputs \cup {NoValue},
        tl \in TimelineInputs \cup {NoValue}, t \in 0..MaxWeek : ReferralCreate(r, raw, tl, t)
  \/ \E r \in SubmittedRefs, tl \in TimelineInputs \cup {NoValue}, t \in 0..MaxWeek :
        ReferralUpdateTimeline(r, tl, t)
  \/ \E r \in SubmittedRefs, s \in StatusInputs : ReferralUpdateStatus(r, s)

SpecSubmit == InitSubmit /\ [][NextSubmit]_vars

\* Payout settings written through the viewset and through update-my-settings
NextSettings ==
  \/ \E u \in Callers, pin \in Partners, method \in SettingMethods :
        \E details \in SUBSET DetailInputs(method) : PayoutSettingCreate(u, pin, method, details)
  \/ \E u \in Callers, method \in SettingMethods :
        \E details \in SUBSET DetailInputs(method) : UpdateMySettings(u, method, details)

SpecSettings == Init /\ [][NextSettings]_vars

\* A payout on which complete and cancel requests may overlap
NextOverlap ==
  \/ \E r \in RefIds : ReferralUpdateStatus(r, "converted")
  \/ \E u \in Callers, pin \in Partners, a \in AmountInputs, ids \in SUBSET RefIds,
        k \in 0..Cardinality(RefIds) : PayoutCreate(u, pin, a, ids, k, FALSE)
  \/ \E p \in PayoutIds : PayoutProcess(p)
  \/ \E c \in Clients, p \in PayoutIds : PayoutCompleteBegin(c, p)
  \/ \E c \in Clients, p \in PayoutIds : PayoutCancelBegin(c, p)
  \/ \E c \in Clients, tid \in TxInputs : PayoutCompleteCommit(c, tid)
  \/ \E c \in Clients, reason \in ReasonInputs : PayoutCancelCommit(c, reason)

SpecOverlap == Init /\ [][NextOverlap]_vars

\* Two payouts that staff create one after the other, for either partner,
\* on referrals that convert
NextTwo ==
  \/ \E r \in RefIds : ReferralUpdateStatus(r, "converted")
  \/ \E pin \in Partners, a \in AmountInputs, ids \in SUBSET RefIds,
        k \in 0..Cardinality(RefIds) : PayoutCreateN(MaxPayouts, "staff", pin, a, ids, k, FALSE)
  \/ \E p \in PayoutIds : PayoutProcess(p)
  \/ \E p \in PayoutIds, tid \in TxInputs : PayoutComplete(p, tid)
  \/ \E p \in PayoutIds, msg \in ErrInputs : PayoutFail(p, msg)

SpecTwo == Init /\ [][NextTwo]_vars

\* A partner's user who asks again for a payout on the same referral after
\* the first payout was cancelled or failed
NextRepay ==
  \/ ReferralUpdateStatus(2, "converted")
  \/ \E a \in AmountInputs, ids \in SUBSET {2}, k \in 0..Cardinality(RefIds) :
        PayoutCreateN(MaxPayouts, "userA", "A", a, ids, k, FALSE)
  \/ \E p \in PayoutIds : PayoutProcess(p)
  \/ \E p \in PayoutIds, tid \in TxInputs : PayoutComplete(p, tid)
  \/ \E p \in PayoutIds, msg \in ErrInputs : PayoutFail(p, msg)
  \/ \E p \in PayoutIds, reason \in ReasonInputs : PayoutCancel(p, reason)
  \/ \E p \in PayoutIds : PayoutUpdate(p, "processing")

SpecRepay == Init /\ [][NextRepay]_vars

\* =====================================================================
\* Properties
\* =====================================================================
linked(E, p) ==
  earnings_included(E, p) \cup {x.referral : x \in {y \in payoutReferrals : y.payout = p}}

\* the edges of the earnings status graph
EarningsEdges ==
  {<<"pending", "available">>, <<"pending_approval", "available">>,
   <<"pending_approval", "rejected">>, <<"available", "processing">>,
   <<"processing", "paid">>, <<"processing", "available">>}
  \cup {<<s, "cancelled">> : s \in EarningsStatus \ {"paid"}}

\* a step of one of the lifecycle operations
LifecycleStep ==
  \/ \E e \in RefIds : EarningsMarkAvailable(e) \/ EarningsMarkProcessing(e) \/ EarningsMarkPaid(e)
  \/ \E e \in RefIds, reason \in ReasonInputs : EarningsCancel(e, reason)
  \/ \E op \in {"approve", "reject"}, u \in Callers, e \in RefIds : EarningsApproveReject(op, u, e)
  \/ \E e \in RefIds, p \in PayoutIds \cup {NoPayout} : EarningsMarkPaidEndpoint(e, p)
  \/ \E u \in Callers, pin \in Partners, a \in AmountInputs, ids \in SUBSET RefIds,
        k \in 0..Cardinality(RefIds), raised \in BOOLEAN : PayoutCreate(u, pin, a, ids, k, raised)
  \/ \E p \in PayoutIds, tid \in TxInputs : PayoutComplete(p, tid)
  \/ \E p \in PayoutIds, msg \in ErrInputs : PayoutFail(p, msg)
  \/ \E p \in PayoutIds, reason \in ReasonInputs : PayoutCancel(p, reason)

\* C1: every change of an earning's status made by a lifecycle operation is
\* an edge of the status graph (pending->available, pending_approval->
\* available/rejected, available->processing, processing->paid, non-paid->
\* cancelled, processing->available).
C1_StatusGraph ==
  [][LifecycleStep =>
       \A e \in RefIds :
         (earnings[e].exists /\ earnings'[e].status # earnings[e].status)
           => <<earnings[e].status, earnings'[e].status>> \in EarningsEdges]_vars

\* C2: when two create requests overlap and both select a referral, the one
\* that finishes second does not also get a PayoutReferral row for it and
\* count its amount.
C2_OneClaimPerEarning ==
  [][\A c \in Clients :
       (req[c].pc = "selected" /\ req'[c].pc = "idle" /\ payouts'[req[c].pid].exists)
         => \A r \in req[c].selected :
              ~ \E x \in payoutReferrals :
                  /\ x.referral = r
                  /\ x.payout \in req[c].overlap
                  /\ payouts[x.payout].amount >= x.amount
                  /\ payouts'[req[c].pid].amount >= x.amount]_vars

\* C3: a payout's amount is the sum of the amounts of its PayoutReferral rows,
\* whatever amount and referral ids the create request carried.
C3_AmountIsSumOfRows ==
  \A p \in PayoutIds :
    payouts[p].exists =>
      payouts[p].amount = SumRows({x \in payoutReferrals : x.payout = p})

\* C4: creation includes exactly the requested referrals that are converted
\* with an available earning: one row each, the earning processing and linked
\* to the new payout; every other earning is left as it was.
C4_CreateIncludesExactly ==
  [][\A u \in Callers, pin \in Partners, a \in AmountInputs, ids \in SUBSET RefIds,
        k \in 0..Cardinality(RefIds) :
       PayoutCreate(u, pin, a, ids, k, FALSE)
       => LET want == {r \in ids : /\ referrals[r].status = "converted"
                                    /\ earnings[r].exists
                                    /\ earnings[r].status = "available"}
              new == payoutReferrals' \ payoutReferrals
          IN /\ {x.referral : x \in new} = want
             /\ \A e \in want : \E p \in PayoutIds :
                   /\ ~payouts[p].exists /\ payouts'[p].exists
                   /\ earnings'[e].status = "processing" /\ earnings'[e].payout = p
             /\ \A e \in RefIds \ want : earnings'[e] = earnings[e]]_vars

\* C5: completing a processing payout makes it completed, sets
\* processed_date and transaction_id, and leaves every linked earning that
\* was processing or available paid.
C5_CompleteEffects ==
  [][\A p \in PayoutIds, tid \in TxInputs :
       (PayoutComplete(p, tid) /\ payouts[p].status = "processing")
         => /\ payouts'[p].status = "completed"
            /\ payouts'[p].processed_date
            /\ payouts'[p].transaction_id = tid
            /\ \A e \in linked(earnings, p) :
                 earnings[e].status \in {"processing", "available"}
                   => earnings'[e].status = "paid"]_vars

\* C6 as stated: cancelling a processing payout returns every earning that
\* was linked to it to available and unlinked, their amounts as the payout
\* recorded them.
C6_CancelRestoresAll ==
  [][\A p \in PayoutIds, reason \in ReasonInputs :
       (PayoutCancel(p, reason) /\ payouts[p].status = "processing")
         => /\ payouts'[p].status = "cancelled"
            /\ <<"Cancellation reason", reason>> \in payouts'[p].note
            /\ \A e \in linked(earnings, p) :
                 /\ earnings'[e].status = "available"
                 /\ earnings'[e].payout = NoPayout
            /\ SumAmounts(earnings', linked(earnings, p))
                 = SumRows({x \in payoutReferrals : x.payout = p})]_vars

\* C6 amended: cancelling a processing payout makes it cancelled, puts the
\* reason in note, and returns every earning whose payout link is this payout
\* and that is still processing to available and unlinked, its amount
\* unchanged; a linked earning in another status is left as it was.
C6_CancelRestoresProcessing ==
  [][\A p \in PayoutIds, reason \in ReasonInputs :
       (PayoutCancel(p, reason) /\ payouts[p].status = "processing")
         => /\ payouts'[p].status = "cancelled"
            /\ <<"Cancellation reason", reason>> \in payouts'[p].note
            /\ \A e \in earnings_included(earnings, p) :
                 IF earnings[e].status = "processing"
                 THEN earnings'[e] = [earnings[e] EXCEPT !.status = "available",
                                                        !.payout = NoPayout]
                 ELSE earnings'[e] = earnings[e]]_vars

\* a cancelled payout that was processing, whose referral's earning is
\* available and unlinked again
C6_Witness ==
  \E p \in PayoutIds, x \in payoutReferrals :
    /\ payouts[p].status = "cancelled"
    /\ \E i \in 1..Len(payoutTimeline) : payoutTimeline[i] = [payout |-> p, status |-> "processing"]
    /\ payouts[p].note # {}
    /\ x.payout = p
    /\ earnings[x.referral].status = "available"
    /\ earnings[x.referral].payout = NoPayout

\* C7: failing a pending or processing payout makes it failed, puts the error
\* message in note, and leaves every linked earning available and unlinked.
C7_FailEffects ==
  [][\A p \in PayoutIds, msg \in ErrInputs :
       (PayoutFail(p, msg) /\ payouts[p].status \in {"pending", "processing"})
         => /\ payouts'[p].status = "failed"
            /\ <<"Error", msg>> \in payouts'[p].note
            /\ \A e \in linked(earnings, p) :
                 /\ earnings'[e].status = "available"
                 /\ earnings'[e].payout = NoPayout]_vars

\* C8: the status of a completed, cancelled or failed payout never changes.
C8_TerminalIsFinal ==
  [][\A p \in PayoutIds :
       (payouts[p].exists /\ payouts[p].status \in {"completed", "cancelled", "failed"})
         => payouts'[p].status = payouts[p].status]_vars

\* C9: process on a payout that is not pending, complete on one that is not
\* processing and cancel on one that is neither are answered 400 and change
\* no payout, earning, PayoutReferral or timeline row.
C9_GuardsReject ==
  [][\A p \in PayoutIds :
       \/ PayoutProcess(p) /\ payouts[p].status # "pending"
       \/ \E tid \in TxInputs : PayoutComplete(p, tid) /\ payouts[p].status # "processing"
       \/ \E reason \in ReasonInputs :
            PayoutCancel(p, reason) /\ payouts[p].status \notin {"pending", "processing"}
       => /\ last'.result = "400" /\ last'.id = p
          /\ UNCHANGED <<payouts, earnings, payoutReferrals, payoutTimeline>>]_vars

\* complete was just refused on a payout that is already completed
C9_Witness ==
  /\ last = [op |-> "complete", id |-> 1, result |-> "400"]
  /\ payouts[1].status = "completed"

\* C10: a create that raises leaves nothing behind, and no completed payout
\* has a linked earning that is still processing.
C10_AllOrNothing ==
  /\ [](\A p \in PayoutIds :
          (payouts[p].exists /\ payouts[p].status = "completed")
            => \A e \in linked(earnings, p) : earnings[e].status # "processing")
  /\ [][\A u \in Callers, pin \in Partners, a \in AmountInputs, ids \in SUBSET RefIds,
          k \in 0..Cardinality(RefIds) :
          PayoutCreate(u, pin, a, ids, k, TRUE)
            => UNCHANGED <<payouts, earnings, payoutReferrals, payoutTimeline>>]_vars

\* C11 as stated: a status update to converted of a referral that has a
\* partner and no earning sets actual_commission to potential_commission and
\* creates the earning with that amount, available when positive, else pending.
C11_ConversionLocksAndCreates ==
  [][\A r \in RefIds :
       (/\ ReferralUpdateStatusN(MaxRefSaves, r, "converted")
        /\ referrals[r].partner # NoValue
        /\ ~earnings[r].exists)
         => /\ referrals'[r].actual_commission = referrals'[r].potential_commission
            /\ earnings'[r].exists
            /\ earnings'[r].amount = referrals'[r].actual_commission
            /\ earnings'[r].status = IF earnings'[r].amount > 0 THEN "available" ELSE "pending"
            /\ earnings'[r].payout = NoPayout]_vars

\* C11 amended: the same for a referral whose actual_commission has never
\* been set; one that was set before (the referral converted while it had no
\* partner) is kept, and the earning carries the kept amount.
C11_FirstConversion ==
  [][\A r \in RefIds :
       (/\ ReferralUpdateStatusN(MaxRefSaves, r, "converted")
        /\ referrals[r].partner # NoValue
        /\ ~earnings[r].exists)
         => /\ referrals[r].actual_commission = NoCommission
                 => referrals'[r].actual_commission = referrals'[r].potential_commission
            /\ referrals[r].actual_commission \notin {NoCommission, 0}
                 => referrals'[r].actual_commission = referrals[r].actual_commission
            /\ earnings'[r].exists
            /\ earnings'[r].amount = referrals'[r].actual_commission
            /\ earnings'[r].status = IF earnings'[r].amount > 0 THEN "available" ELSE "pending"
            /\ earnings'[r].payout = NoPayout]_vars

\* a referral with a partner and an estimate of 0, converted by its first
\* status change, with its pending earning of amount 0
C11_Witness ==
  /\ referrals[1].status = "converted" /\ referrals[1].prev_status = "pending"
  /\ referralTimeline[1] = <<"converted">>
  /\ referrals[1].partner = "A"
  /\ referrals[1].actual_commission = 0 /\ referrals[1].potential_commission = 0
  /\ earnings[1].exists /\ earnings[1].status = "pending" /\ earnings[1].amount = 0

\* C12: a save or status update of a referral that has an earning leaves the
\* earning as it is, and an earning appears only with a converted referral
\* that has a partner; the referral keeps its one earning.
C12_OneEarning ==
  [][\A r \in RefIds :
       /\ (earnings[r].exists /\ referrals'[r] # referrals[r]) => earnings'[r] = earnings[r]
       /\ (~earnings[r].exists /\ earnings'[r].exists)
            => /\ referrals'[r].status = "converted"
               /\ earnings'[r].partner = referrals'[r].partner
               /\ earnings'[r].partner # NoValue]_vars

\* a referral that left converted and entered it again, with its earning,
\* which has been paid meanwhile
C12_Witness ==
  /\ referralTimeline[1] = <<"converted", "rejected", "converted">>
  /\ referrals[1].status = "converted"
  /\ earnings[1].exists /\ earnings[1].status = "paid"

\* C13: once set, actual_commission never changes.
C13_ActualCommissionLocked ==
  [][\A r \in RefIds :
       referrals[r].actual_commission # NoCommission
         => referrals'[r].actual_commission = referrals[r].actual_commission]_vars

\* C14: Earnings.cancel on a paid earning is refused and leaves it as it is;
\* on an earning that is neither paid nor cancelled it sets cancelled and
\* puts the reason in notes.
C14_CancelGuard ==
  [][\A e \in RefIds, reason \in ReasonInputs :
       EarningsCancel(e, reason)
         => IF earnings[e].status = "paid"
            THEN earnings'[e] = earnings[e]
            ELSE earnings[e].status # "cancelled"
                   => /\ earnings'[e].status = "cancelled"
                      /\ <<"Cancellation reason", reason>> \in earnings'[e].notes]_vars

\* C15: approve and reject change an earning only for staff on a
\* pending_approval earning; otherwise they answer with an error response
\* and leave the earning as it is.
C15_ApproveRejectGuarded ==
  [][\A op \in {"approve", "reject"}, u \in Callers, e \in RefIds :
       EarningsApproveReject(op, u, e)
         => IF IsStaff(u) /\ earnings[e].status = "pending_approval"
            THEN earnings'[e].status = IF op = "approve" THEN "available" ELSE "rejected"
            ELSE last'.result = "error" /\ earnings' = earnings]_vars

\* C17: a payout created by a non-staff caller is for the caller's partner,
\* and the referrals of its new PayoutReferral rows and the earnings it links
\* belong to that partner.
C17_CreateScopedToPartner ==
  [][\A u \in Callers, pin \in Partners, a \in AmountInputs, ids \in SUBSET RefIds,
        k \in 0..Cardinality(RefIds) :
       (PayoutCreate(u, pin, a, ids, k, FALSE) /\ ~IsStaff(u))
         => \A p \in PayoutIds :
              (~payouts[p].exists /\ payouts'[p].exists)
                => /\ payouts'[p].partner = PartnerOf(u)
                   /\ \A x \in payoutReferrals' :
                        x.payout = p => referrals[x.referral].partner = PartnerOf(u)
                   /\ \A e \in earnings_included(earnings', p) :
                        earnings'[e].partner = PartnerOf(u)]_vars

\* C18: a step that changes the status of a persisted payout appends one
\* PayoutTimeline row with the new status, a step that changes no status
\* appends none, and the newest row of a payout carries its current status.
C18_TimelineFollowsStatus ==
  /\ [](\A p \in PayoutIds :
          (payouts[p].exists /\ PayoutChanges(payoutTimeline, p) > 0)
            => LET last_i == CHOOSE i \in 1..Len(payoutTimeline) :
                               /\ payoutTimeline[i].payout = p
                               /\ \A j \in (i + 1)..Len(payoutTimeline) :
                                    payoutTimeline[j].payout # p
               IN payoutTimeline[last_i].status = payouts[p].status)
  /\ [][LET changed == {p \in PayoutIds : /\ payouts[p].exists
                                          /\ payouts'[p].status # payouts[p].status}
        IN /\ changed = {} => payoutTimeline' = payoutTimeline
           /\ \A p \in changed :
                payoutTimeline' = Append(payoutTimeline,
                                         [payout |-> p, status |-> payouts'[p].status])]_vars

\* a payout that was processed and then completed, with its two rows
C18_Witness ==
  /\ payouts[1].status = "completed"
  /\ payoutTimeline = <<[payout |-> 1, status |-> "processing"],
                        [payout |-> 1, status |-> "completed"]>>

\* C16: the generic earnings update never changes a status: a request with a
\* status field is refused and changes nothing, one without it changes at
\* most the notes of its earning.
C16_UpdateKeepsStatus ==
  [][\A u \in Callers, e \in RefIds, st \in {NoValue, "paid"}, n \in NotesInputs \cup {NoValue} :
       EarningsUpdate(u, e, [status |-> st, notes |-> n])
         => /\ \A x \in RefIds : earnings'[x].status = earnings[x].status
            /\ st # NoValue => last'.result = "error" /\ earnings' = earnings
            /\ st = NoValue =>
                 \A x \in RefIds :
                   earnings'[x] = IF x = e THEN [earnings[x] EXCEPT !.notes = earnings'[x].notes]
                                  ELSE earnings[x]]_vars

\* an available earning whose notes the generic update has replaced
C16_Witness ==
  /\ earnings[1].exists /\ earnings[1].status = "available"
  /\ earnings[1].notes = {<<"notes", "checked by finance">>}
  /\ last.result = "error"

\* C20: when the processor fails on a pending payout the payout becomes
\* failed, the error message is stored on it, and the request does not end
\* in an exception.
C20_ProcessorFailureHandled ==
  [][\A p \in PayoutIds :
       (PayoutProcess(p) /\ payouts[p].status = "pending" /\ processor_raises(payouts[p]))
         => /\ payouts'[p].status = "failed"
            /\ payouts'[p].pd_error # NoValue \/ payouts'[p].note # payouts[p].note
            /\ last'.result # "raised"]_vars

\* C19: a step that changes a referral's status sets prev_status to the
\* status held before and appends exactly one ReferralTimeline entry for the
\* new status; a step that does not change the status leaves the referral's
\* timeline as it was, so entries come from status changes only and no entry
\* is ever modified or deleted.
C19_TimelineOnlyOnChange ==
  [][\A r \in RefIds :
       LET changed == referrals'[r].status # referrals[r].status
       IN /\ changed => /\ referrals'[r].prev_status = referrals[r].status
                        /\ referralTimeline'[r] =
                             Append(referralTimeline[r], referrals'[r].status)
          /\ ~changed => referralTimeline'[r] = referralTimeline[r]]_vars

\* C24: no earning linked to a payout in a terminal status is left in
\* processing: the earnings linked to a completed payout are paid, and the
\* earnings a cancelled or failed payout had claimed are not processing any
\* more.
C24_NoProcessingUnderTerminal ==
  \A p \in PayoutIds :
    payouts[p].exists =>
      /\ payouts[p].status = "completed"
           => \A e \in earnings_included(earnings, p) : earnings[e].status = "paid"
      /\ payouts[p].status \in {"completed", "cancelled", "failed"}
           => \A e \in linked(earnings, p) : earnings[e].status # "processing"

\* C27: an earning is paid only if it is linked to a payout that is completed.
C27_PaidOnlyUnderCompleted ==
  \A e \in RefIds :
    (earnings[e].exists /\ earnings[e].status = "paid")
      => /\ earnings[e].payout # NoPayout
         /\ payouts[earnings[e].payout].status = "completed"

\* C28: an earning in processing is linked to a payout, and that payout is
\* pending or processing.
C28_ProcessingIsClaimed ==
  \A e \in RefIds :
    (earnings[e].exists /\ earnings[e].status = "processing")
      => /\ earnings[e].payout # NoPayout
         /\ payouts[earnings[e].payout].status \in {"pending", "processing"}

\* C26: a status update to converted of a referral that has no partner makes
\* it converted, sets actual_commission, appends one timeline entry, creates
\* no earning and answers without an error.
C26_ConvertWithoutPartner ==
  [][\A r \in RefIds :
       (/\ ReferralUpdateStatusN(MaxRefSaves, r, "converted")
        /\ referrals[r].status # "converted"
        /\ referrals[r].partner = NoValue /\ referrals[r].user_partner = NoValue)
         => /\ referrals'[r].status = "converted"
            /\ referrals'[r].actual_commission # NoCommission
            /\ referrals[r].actual_commission = NoCommission
                 => referrals'[r].actual_commission = referrals[r].potential_commission
            /\ referralTimeline'[r] = Append(referralTimeline[r], "converted")
            /\ earnings' = earnings
            /\ last'.result = "ok"]_vars

\* a referral without partner, converted by its first status change, with
\* its commission set and no earning
C26_Witness ==
  /\ referrals[1].status = "converted" /\ referrals[1].partner = NoValue
  /\ referrals[1].actual_commission = 50
  /\ referralTimeline[1] = <<"converted">>
  /\ ~earnings[1].exists
  /\ last.result = "ok"

\* C25: for every referral at most one completed payout has a PayoutReferral
\* row for it.
C25_PaidOnce ==
  \A r \in RefIds :
    Cardinality({p \in PayoutIds :
                   /\ payouts[p].exists /\ payouts[p].status = "completed"
                   /\ \E x \in payoutReferrals : x.payout = p /\ x.referral = r}) <= 1

\* C29: when a payout is completed or failed, an earning of the same partner
\* that is processing under a different payout keeps its status and its
\* payout link.
C29_OtherPayoutUntouched ==
  [][\A p \in PayoutIds :
       ((\E tid \in TxInputs : PayoutComplete(p, tid)) \/ (\E msg \in ErrInputs : PayoutFail(p, msg)))
         => \A e \in RefIds :
              (/\ earnings[e].exists /\ earnings[e].status = "processing"
               /\ earnings[e].partner = payouts[p].partner
               /\ earnings[e].payout \notin {NoPayout, p})
                => earnings'[e] = earnings[e]]_vars

C23_ExpectedDate ==
  \A r \in RefIds :
    referrals[r].exists =>
      referrals[r].expected_implementation_date =
        IF referrals[r].timeline \in DOMAIN TimelineWeeks
        THEN referrals[r].date_submitted + TimelineWeeks[referrals[r].timeline]
        ELSE NoDate

\* C30: of a complete and a cancel on one payout only one takes effect: no
\* earning is paid while the payout is cancelled, and no earning that has a
\* PayoutReferral row of a completed payout is available.
C30_CompleteXorCancel ==
  \A p \in PayoutIds :
    payouts[p].exists =>
      /\ payouts[p].status = "cancelled"
           => \A e \in RefIds : ~(earnings[e].exists /\ earnings[e].status = "paid")
      /\ payouts[p].status = "completed"
           => \A x \in payoutReferrals :
                x.payout = p => earnings[x.referral].status # "available"

\* C21: a write of a payout setting whose payment_details miss a required
\* field of the method is refused with an error that names every missing
\* required field, and stores nothing.
C21_NamesEveryMissingField ==
  [][\A u \in Callers, pin \in Partners, method \in SettingMethods :
       \A details \in SUBSET DetailInputs(method) :
         (/\ PayoutSettingCreate(u, pin, method, details) \/ UpdateMySettings(u, method, details)
          /\ SettingRequired(method) \ details # {})
           => /\ last'.result = "error"
              /\ (SettingRequired(method) \ details) \subseteq last'.named
              /\ payoutSettings' = payoutSettings]_vars
====
